---- MODULE Spec2Model ----
(***************************************************************************)
(* The SWIFT frontend of yt (yt/frontends/swift/data_structures.py):       *)
(* SwiftDataset._is_valid, _get_info_attributes, _parse_parameter_file and *)
(* _set_code_unit_attributes, as a state machine over the HDF5 file the    *)
(* code reads.  The content of the file is an input: each group is drawn   *)
(* the first time the code touches it and is fixed from then on.           *)
(***************************************************************************)
EXTENDS Integers, Sequences, FiniteSets, TLC

\* ---------------------------------------------------------------- bounds
\* Header["Dimension"] ranges over 1..MaxDim.
MaxDim == 3
\* Integer flags stored in the file (Policy["cosmological integration"],
\* PeriodicBoundariesOn, InitialConditions:periodic) range over 0..MaxFlag.
MaxFlag == 2
\* Number of _is_valid calls in one run.
MaxChecks == 3

\* ------------------------------------------------------- values and dicts
\* An attribute a generated dictionary leaves out, and a descriptor field
\* that has not been assigned yet.
Unset == 0 - 1

\* A Python dict: a function from the keys it holds to their values.
EmptyDict == [k \in {} |-> 0]

\* The dictionary holding the keys of record f whose value is not Unset.
Dict(f) == [k \in {x \in DOMAIN f : f[x] # Unset} |-> f[k]]

\* key in d
Has(d, k) == k \in DOMAIN d

\* int(x) and float(x) on the numeric attribute values of the model: both
\* casts keep the value of an integral number.
ToInt(v) == v
ToFloat(v) == v

FlagVals == 0..MaxFlag

\* Header.attrs without Code: BoxSize is a vector, the rest are scalars.
BoxVector == <<4, 4, 4>>
HeaderDicts ==
  { Dict(f) @@ b :
      f \in [Dimension : (1..MaxDim) \cup {Unset}, Time : {5, Unset},
             Redshift : {2, Unset}],
      b \in {EmptyDict, [BoxSize |-> BoxVector]} }

PolicyDicts ==
  { Dict(f) : f \in [cosmological_integration : FlagVals \cup {Unset}] }

\* Parameters.attrs: the keys the parser looks up ("Cosmology:Omega_lambda"
\* is written Cosmology_Omega_lambda, and so on).
ParametersDicts ==
  { Dict(f) :
      f \in [InitialConditions_periodic : FlagVals \cup {Unset},
             Cosmology_Omega_lambda : {7, Unset},
             Cosmology_Omega_b : {1, Unset},
             Cosmology_Omega_cdm : {2, Unset},
             Cosmology_Omega_m : {6, Unset},
             Cosmology_h : {9, Unset}] }

RuntimeParsDicts ==
  { Dict(f) : f \in [PeriodicBoundariesOn : FlagVals \cup {Unset}] }

HydroDicts == { [Scheme |-> 1] }
SubgridDicts == { [Model |-> 2] }

\* Units.attrs: complete, or with one of the four keys the resolver reads
\* left out.
FullUnits == [U_L |-> 3, U_M |-> 5, U_t |-> 7, U_T |-> 1]
UnitsDicts ==
  {FullUnits} \cup
  { [k \in (DOMAIN FullUnits) \ {x} |-> FullUnits[k]] : x \in DOMAIN FullUnits }

Groups == {"Header", "RuntimePars", "Policy", "Parameters", "HydroScheme",
           "SubgridScheme", "Units"}

GroupDicts(g) ==
  CASE g = "Header" -> HeaderDicts
    [] g = "RuntimePars" -> RuntimeParsDicts
    [] g = "Policy" -> PolicyDicts
    [] g = "Parameters" -> ParametersDicts
    [] g = "HydroScheme" -> HydroDicts
    [] g = "SubgridScheme" -> SubgridDicts
    [] g = "Units" -> UnitsDicts

\* What the file holds for a group: not looked at yet, no such group, or the
\* group with its attributes.
Unread == [state |-> "unread", attrs |-> EmptyDict]
Absent == [state |-> "absent", attrs |-> EmptyDict]
Present(d) == [state |-> "present", attrs |-> d]
GroupContents(g) == {Absent} \cup { Present(d) : d \in GroupDicts(g) }

\* ------------------------------------------------------------------ state
VARIABLES
  pc,               \* position of the single thread of control
  exc,              \* exception that escaped the running method, or "none"
  readable,         \* whether self.filename opens as an HDF5 container
  file,             \* group name -> what the file holds for it
  handles,          \* h5py.File handles of self.filename that are open
  dataset,          \* argument of the running _get_info_attributes call
  has_runtime_pars, \* local of _parse_parameter_file
  loc,              \* the attribute dictionaries held by the caller's locals
  ds,               \* the fields of the SwiftDataset instance
  cand,             \* the candidate file handed to _is_valid
  valid,            \* local `valid` / result of the last _is_valid call
  vhandle,          \* whether the running _is_valid call holds an open handle
  attempted,        \* whether the running/last _is_valid call tried to open
  leaked,           \* handles _is_valid left open and dropped
  checks            \* number of _is_valid calls made

vars == <<pc, exc, readable, file, handles, dataset, has_runtime_pars, loc,
          ds, cand, valid, vhandle, attempted, leaked, checks>>

parseVars == <<readable, file, handles, dataset, has_runtime_pars, loc, ds>>
validVars == <<cand, valid, vhandle, attempted, leaked, checks>>

NoLength == [mag |-> Unset, unit |-> "unset"]
NoParameters == [k \in {} |-> EmptyDict]

InitDs ==
  [ domain_right_edge |-> <<>>, domain_left_edge |-> <<>>,
    dimensionality |-> Unset, periodicity |-> <<>>,
    current_time |-> Unset, cosmological_simulation |-> Unset,
    current_redshift |-> Unset, omega_lambda |-> Unset,
    omega_matter |-> Unset, hubble_constant |-> Unset,
    parameters |-> NoParameters, file_count |-> Unset,
    length_unit |-> NoLength, mass_unit |-> NoLength,
    time_unit |-> NoLength, temperature_unit |-> NoLength ]

InitLoc ==
  [ header |-> EmptyDict, runtime_parameters |-> EmptyDict,
    policy |-> EmptyDict, parameters |-> EmptyDict, hydro |-> EmptyDict,
    subgrid |-> EmptyDict, units |-> EmptyDict ]

\* The Code attribute of a candidate file as h5py hands it over: a
\* fixed-length string arrives as bytes, a variable-length string as str, a
\* numeric attribute as a numpy scalar.
NoCode == [type |-> "absent", value |-> ""]
CodeAttrs ==
  { [type |-> "bytes", value |-> "SWIFT"],
    [type |-> "bytes", value |-> "GADGET"],
    [type |-> "bytes", value |-> "not-utf-8"],
    [type |-> "str", value |-> "SWIFT"],
    [type |-> "int64", value |-> "1"] }

\* The files and environments _is_valid can be called with: whether the
\* load requirements are installed, whether the path opens as a container,
\* whether it has a Header group, and the Code attribute of that group.
Candidates ==
  { c \in [deps : BOOLEAN, container : BOOLEAN, header : BOOLEAN,
           code : CodeAttrs \cup {NoCode}] :
      /\ ~c.container => ~c.header
      /\ ~c.header => c.code = NoCode }

NoCand == [deps |-> TRUE, container |-> FALSE, header |-> FALSE, code |-> NoCode]

InitCommon ==
  /\ exc = "none"
  /\ readable = "unknown"
  /\ file = [g \in Groups |-> Unread]
  /\ handles = 0
  /\ dataset = "none"
  /\ has_runtime_pars = FALSE
  /\ loc = InitLoc
  /\ ds = InitDs
  /\ cand = NoCand
  /\ valid = FALSE
  /\ vhandle = FALSE
  /\ attempted = FALSE
  /\ leaked = 0
  /\ checks = 0

\* A SwiftDataset under construction: the host calls _parse_parameter_file
\* and then _set_code_unit_attributes.
Init == pc = "parse" /\ InitCommon

\* ---------------------------------------------------- _get_info_attributes
\* The group a first look at the file finds; a later look finds the same.
Reveal(g, c) ==
  /\ c \in GroupContents(g)
  /\ file[g] # Unread => c = file[g]
  /\ file' = [file EXCEPT ![g] = c]

\* The local of the caller that receives the dictionary of group g.
Target(g) ==
  CASE g = "Header" -> "header"
    [] g = "RuntimePars" -> "runtime_parameters"
    [] g = "Policy" -> "policy"
    [] g = "Parameters" -> "parameters"
    [] g = "HydroScheme" -> "hydro"
    [] g = "SubgridScheme" -> "subgrid"
    [] g = "Units" -> "units"

\* Where the caller continues after _get_info_attributes(g) returns.
AfterInfo(g) ==
  CASE g = "Header" -> [pc |-> "rt_open", dataset |-> "none"]
    [] g = "RuntimePars" -> [pc |-> "info_open", dataset |-> "Policy"]
    [] g = "Policy" -> [pc |-> "info_open", dataset |-> "Parameters"]
    [] g = "Parameters" -> [pc |-> "info_open", dataset |-> "HydroScheme"]
    [] g = "HydroScheme" -> [pc |-> "info_open", dataset |-> "SubgridScheme"]
    [] g = "SubgridScheme" -> [pc |-> "domain", dataset |-> "none"]
    [] g = "Units" -> [pc |-> "units", dataset |-> "none"]

\* h5py.File(self.filename, mode="r"): the file opens or OSError is raised.
OpenFile(next) ==
  \E r \in {"yes", "no"} :
    /\ readable # "unknown" => r = readable
    /\ readable' = r
    /\ IF r = "yes"
         THEN /\ handles' = handles + 1
              /\ pc' = next
              /\ exc' = exc
         ELSE /\ handles' = handles
              /\ pc' = "raised"
              /\ exc' = "OSError"

\* A with block that releases the handle at its end only.
ExitWithOnReturnOnly(h, raised) == IF raised THEN h ELSE h - 1

\* The open handles when a `with h5py.File(...)` block is left, by its end
\* or by an exception.
ExitWith(h, raised) == h - 1

\* _parse_parameter_file starts with _get_info_attributes("Header").
ParseBegin ==
  /\ pc = "parse"
  /\ pc' = "info_open"
  /\ dataset' = "Header"
  /\ UNCHANGED <<exc, readable, file, handles, has_runtime_pars, loc, ds>>
  /\ UNCHANGED validVars

\* with h5py.File(self.filename, mode="r") as handle:
InfoOpen ==
  /\ pc = "info_open"
  /\ OpenFile("info_read")
  /\ UNCHANGED <<file, dataset, has_runtime_pars, loc, ds>>
  /\ UNCHANGED validVars

\* header = dict(handle[dataset].attrs), the end of the with block and the
\* return to the caller; handle[dataset] raises KeyError for a missing group.
InfoRead ==
  /\ pc = "info_read"
  /\ \E c \in GroupContents(dataset) :
       /\ Reveal(dataset, c)
       /\ IF c.state = "present"
            THEN /\ loc' = [loc EXCEPT ![Target(dataset)] = c.attrs]
                 /\ handles' = ExitWith(handles, FALSE)
                 /\ pc' = AfterInfo(dataset).pc
                 /\ dataset' = AfterInfo(dataset).dataset
                 /\ exc' = exc
            ELSE /\ loc' = loc
                 /\ handles' = ExitWith(handles, TRUE)
                 /\ pc' = "raised"
                 /\ dataset' = dataset
                 /\ exc' = "KeyError"
  /\ UNCHANGED <<readable, has_runtime_pars, ds>>
  /\ UNCHANGED validVars

\* ---------------------------------------------------- _parse_parameter_file
\* with h5py.File(self.filename, mode="r") as handle:
RuntimeOpen ==
  /\ pc = "rt_open"
  /\ OpenFile("rt_keys")
  /\ UNCHANGED <<file, dataset, has_runtime_pars, loc, ds>>
  /\ UNCHANGED validVars

\* has_runtime_pars = "RuntimePars" in handle.keys(), the end of the with
\* block, and the else branch runtime_parameters = {}.
RuntimeKeys ==
  /\ pc = "rt_keys"
  /\ \E c \in GroupContents("RuntimePars") :
       /\ Reveal("RuntimePars", c)
       /\ has_runtime_pars' = (c.state = "present")
       /\ handles' = ExitWith(handles, FALSE)
       /\ pc' = "info_open"
       /\ IF c.state = "present"
            THEN /\ dataset' = "RuntimePars"
                 /\ loc' = loc
            ELSE /\ dataset' = "Policy"
                 /\ loc' = [loc EXCEPT !.runtime_parameters = EmptyDict]
  /\ UNCHANGED <<exc, readable, ds>>
  /\ UNCHANGED validVars

\* A step of the parser after the reads: it touches only the descriptor.
Derive(next, newDs) ==
  /\ pc' = next
  /\ ds' = newDs
  /\ UNCHANGED <<exc, readable, file, handles, dataset, has_runtime_pars, loc>>
  /\ UNCHANGED validVars

\* A failed key lookup outside the try block.
RaiseKeyError ==
  /\ pc' = "raised"
  /\ exc' = "KeyError"
  /\ UNCHANGED <<readable, file, handles, dataset, has_runtime_pars, loc, ds>>
  /\ UNCHANGED validVars

\* np.zeros_like(v)
ZerosLike(v) == [i \in DOMAIN v |-> 0]

\* self.domain_right_edge = header["BoxSize"]; self.domain_left_edge = zeros
SetDomain ==
  /\ pc = "domain"
  /\ IF Has(loc.header, "BoxSize")
       THEN Derive("dimension",
                   [ds EXCEPT !.domain_right_edge = loc.header["BoxSize"],
                              !.domain_left_edge = ZerosLike(loc.header["BoxSize"])])
       ELSE RaiseKeyError

\* self.dimensionality = int(header["Dimension"])
SetDimensionality ==
  /\ pc = "dimension"
  /\ IF Has(loc.header, "Dimension")
       THEN Derive("periodic",
                   [ds EXCEPT !.dimensionality = ToInt(loc.header["Dimension"])])
       ELSE RaiseKeyError

\* The periodicity flag read from Parameters whatever the file holds.
PeriodicSourceParametersOnly(hasRuntime) ==
  [dict |-> "parameters", key |-> "InitialConditions_periodic"]

\* The dictionary and key the periodicity flag is read from.
PeriodicSource(hasRuntime) ==
  IF hasRuntime
    THEN [dict |-> "runtime_parameters", key |-> "PeriodicBoundariesOn"]
    ELSE [dict |-> "parameters", key |-> "InitialConditions_periodic"]

\* [value] * n
Repeat(value, n) == [i \in 1..n |-> value]

\* [True] * self.dimensionality if periodic else [False] * self.dimensionality
Periodicity(periodic, n) ==
  IF periodic # 0 THEN Repeat(TRUE, n) ELSE Repeat(FALSE, n)

SetPeriodicity ==
  /\ pc = "periodic"
  /\ LET src == PeriodicSource(has_runtime_pars)
     IN IF Has(loc[src.dict], src.key)
          THEN Derive("time",
                      [ds EXCEPT !.periodicity =
                                    Periodicity(ToInt(loc[src.dict][src.key]),
                                                ds.dimensionality)])
          ELSE RaiseKeyError

\* self.current_time = float(header["Time"])
SetTime ==
  /\ pc = "time"
  /\ IF Has(loc.header, "Time")
       THEN Derive("flag", [ds EXCEPT !.current_time = ToFloat(loc.header["Time"])])
       ELSE RaiseKeyError

\* if self.cosmological_simulation:
Truthy(n) == n # 0

\* self.cosmological_simulation = int(policy["cosmological integration"])
\* and the test of the flag.
SetFlag ==
  /\ pc = "flag"
  /\ IF Has(loc.policy, "cosmological_integration")
       THEN LET c == ToInt(loc.policy["cosmological_integration"])
            IN Derive(IF Truthy(c) THEN "redshift" ELSE "noncosmo",
                      [ds EXCEPT !.cosmological_simulation = c])
       ELSE RaiseKeyError

\* One assignment of the try block: the value is stored, or the KeyError of
\* the lookup takes control to the except clause.
TryAssign(found, next, newDs) ==
  IF found THEN Derive(next, newDs) ELSE Derive("fallback", ds)

\* self.current_redshift = float(header["Redshift"])
CosmoRedshift ==
  /\ pc = "redshift"
  /\ TryAssign(Has(loc.header, "Redshift"), "omega_lambda",
               [ds EXCEPT !.current_redshift = ToFloat(loc.header["Redshift"])])

\* self.omega_lambda = float(parameters["Cosmology:Omega_lambda"])
CosmoLambda ==
  /\ pc = "omega_lambda"
  /\ TryAssign(Has(loc.parameters, "Cosmology_Omega_lambda"), "omega_matter",
               [ds EXCEPT !.omega_lambda =
                             ToFloat(loc.parameters["Cosmology_Omega_lambda"])])

\* The keys the omega_matter assignment looks up.
MatterKeys(p) ==
  IF Has(p, "Cosmology_Omega_cdm")
    THEN {"Cosmology_Omega_b", "Cosmology_Omega_cdm"}
    ELSE {"Cosmology_Omega_m"}

\* The split keys read without adding Omega_b.
OmegaMatterCdmOnly(p) ==
  IF Has(p, "Cosmology_Omega_cdm")
    THEN ToFloat(p["Cosmology_Omega_cdm"])
    ELSE ToFloat(p["Cosmology_Omega_m"])

\* Omega_b + Omega_cdm with the split keys, the deprecated Omega_m without.
OmegaMatter(p) ==
  IF Has(p, "Cosmology_Omega_cdm")
    THEN ToFloat(p["Cosmology_Omega_b"]) + ToFloat(p["Cosmology_Omega_cdm"])
    ELSE ToFloat(p["Cosmology_Omega_m"])

CosmoMatter ==
  /\ pc = "omega_matter"
  /\ TryAssign(MatterKeys(loc.parameters) \subseteq DOMAIN loc.parameters,
               "hubble",
               [ds EXCEPT !.omega_matter = OmegaMatter(loc.parameters)])

\* self.hubble_constant = float(parameters["Cosmology:h"])
CosmoHubble ==
  /\ pc = "hubble"
  /\ TryAssign(Has(loc.parameters, "Cosmology_h"), "store",
               [ds EXCEPT !.hubble_constant =
                             ToFloat(loc.parameters["Cosmology_h"])])

\* The defaults with hubble_constant left out.
ZeroCosmologyWithoutHubble(d) ==
  [d EXCEPT !.current_redshift = 0, !.omega_lambda = 0, !.omega_matter = 0]

\* The four cosmology scalars set to 0.0.
ZeroCosmology(d) ==
  [d EXCEPT !.current_redshift = 0, !.omega_lambda = 0,
            !.omega_matter = 0, !.hubble_constant = 0]

\* A fallback that resets the flag and keeps the scalars the try block had
\* already assigned.
FallbackKeepingAssigned(d) ==
  [d EXCEPT !.cosmological_simulation = 0,
            !.current_redshift = IF @ = Unset THEN 0 ELSE @,
            !.omega_lambda = IF @ = Unset THEN 0 ELSE @,
            !.omega_matter = IF @ = Unset THEN 0 ELSE @,
            !.hubble_constant = IF @ = Unset THEN 0 ELSE @]

\* except KeyError: the flag is reset and the scalars are zeroed.
FallbackState(d) == ZeroCosmology([d EXCEPT !.cosmological_simulation = 0])

Fallback ==
  /\ pc = "fallback"
  /\ Derive("store", FallbackState(ds))

\* else: the scalars of a non-cosmological run.
NonCosmo ==
  /\ pc = "noncosmo"
  /\ Derive("store", ZeroCosmology(ds))

\* The passthrough with the hydro and subgrid dictionaries exchanged.
RawParametersSwapped(l) ==
  [ header |-> l.header, policy |-> l.policy, parameters |-> l.parameters,
    runtime_parameters |-> l.runtime_parameters, hydro |-> l.subgrid,
    subgrid |-> l.hydro ]

\* The un-parsed dictionaries kept in self.parameters.
RawParameters(l) ==
  [ header |-> l.header, policy |-> l.policy, parameters |-> l.parameters,
    runtime_parameters |-> l.runtime_parameters, hydro |-> l.hydro,
    subgrid |-> l.subgrid ]

\* self.parameters = {...}; self.file_count = 1; return
Store ==
  /\ pc = "store"
  /\ Derive("parsed",
            [ds EXCEPT !.parameters = RawParameters(loc), !.file_count = 1])

\* ------------------------------------------------ _set_code_unit_attributes
\* units = self._get_info_attributes("Units")
UnitsBegin ==
  /\ pc = "parsed"
  /\ pc' = "info_open"
  /\ dataset' = "Units"
  /\ UNCHANGED <<exc, readable, file, handles, has_runtime_pars, loc, ds>>
  /\ UNCHANGED validVars

\* if self.cosmological_simulation == 1:
IsComoving(c) == c = 1

\* self.quan(float(units[...]), "cmcm") or "cm"
LengthUnit(u, c) ==
  [mag |-> ToFloat(u["U_L"]), unit |-> IF IsComoving(c) THEN "cmcm" ELSE "cm"]

SetUnits ==
  /\ pc = "units"
  /\ IF DOMAIN FullUnits \subseteq DOMAIN loc.units
       THEN Derive("done",
              [ds EXCEPT
                 !.length_unit = LengthUnit(loc.units, ds.cosmological_simulation),
                 !.mass_unit = [mag |-> ToFloat(loc.units["U_M"]), unit |-> "g"],
                 !.time_unit = [mag |-> ToFloat(loc.units["U_t"]), unit |-> "s"],
                 !.temperature_unit =
                    [mag |-> ToFloat(loc.units["U_T"]), unit |-> "K"]])
       ELSE RaiseKeyError

\* ---------------------------------------------------------------- _is_valid
\* x.decode("utf-8") of the Code attribute: only bytes have the method, and
\* only UTF-8 bytes decode.
Decode(a) ==
  IF a.type = "bytes"
    THEN IF a.value = "not-utf-8"
           THEN [exc |-> "UnicodeDecodeError", text |-> ""]
           ELSE [exc |-> "none", text |-> a.value]
    ELSE [exc |-> "AttributeError", text |-> ""]

\* except (OSError, KeyError):
Caught(e) == e \in {"OSError", "KeyError"}

\* The call, the test of cls._missing_load_requirements() and valid = True.
ValidCall ==
  /\ pc = "idle"
  /\ checks < MaxChecks
  /\ \E c \in Candidates :
       /\ cand' = c
       /\ IF ~c.deps
            THEN /\ valid' = FALSE
                 /\ pc' = "idle"
            ELSE /\ valid' = TRUE
                 /\ pc' = "v_open"
  /\ checks' = checks + 1
  /\ attempted' = FALSE
  /\ exc' = "none"
  /\ UNCHANGED <<vhandle, leaked>>
  /\ UNCHANGED parseVars

\* handle = h5py.File(filename, mode="r"); OSError is caught.
ValidOpen ==
  /\ pc = "v_open"
  /\ attempted' = TRUE
  /\ IF cand.container
       THEN /\ vhandle' = TRUE
            /\ valid' = valid
            /\ pc' = "v_read"
       ELSE /\ vhandle' = vhandle
            /\ valid' = ~Caught("OSError")
            /\ pc' = "v_ret"
  /\ UNCHANGED <<exc, cand, leaked, checks>>
  /\ UNCHANGED parseVars

\* valid = handle["Header"].attrs["Code"].decode("utf-8") == "SWIFT" and
\* handle.close().  A missing group or attribute raises KeyError, which is
\* caught after close() was skipped; an exception of decode is not caught
\* and leaves the method with the handle open.
ValidRead ==
  /\ pc = "v_read"
  /\ IF ~cand.header \/ cand.code = NoCode
       THEN /\ valid' = ~Caught("KeyError")
            /\ pc' = "v_ret"
            /\ UNCHANGED <<exc, vhandle, leaked>>
       ELSE IF Decode(cand.code).exc = "none"
         THEN /\ valid' = (Decode(cand.code).text = "SWIFT")
              /\ vhandle' = FALSE
              /\ pc' = "v_ret"
              /\ UNCHANGED <<exc, leaked>>
         ELSE /\ exc' = Decode(cand.code).exc
              /\ vhandle' = FALSE
              /\ leaked' = leaked + 1
              /\ pc' = "idle"
              /\ valid' = valid
  /\ UNCHANGED <<cand, attempted, checks>>
  /\ UNCHANGED parseVars

\* return valid: the frame and its reference to the handle go away; a handle
\* that was not closed stays open.
ValidReturn ==
  /\ pc = "v_ret"
  /\ pc' = "idle"
  /\ vhandle' = FALSE
  /\ leaked' = IF vhandle THEN leaked + 1 ELSE leaked
  /\ UNCHANGED <<exc, cand, valid, attempted, checks>>
  /\ UNCHANGED parseVars

\* The interpreter may finalize a dropped handle, which closes it, at any
\* later time or never.
Finalize ==
  /\ leaked > 0
  /\ leaked' = leaked - 1
  /\ UNCHANGED <<pc, exc, cand, valid, vhandle, attempted, checks>>
  /\ UNCHANGED parseVars

\* The host probing candidate files with SwiftDataset._is_valid.
ValidInit == pc = "idle" /\ InitCommon

ValidNext ==
  \/ ValidCall
  \/ ValidOpen
  \/ ValidRead
  \/ ValidReturn
  \/ Finalize

ValidSpec == ValidInit /\ [][ValidNext]_vars

\* ------------------------------------------------------- specifications
Next ==
  \/ ParseBegin
  \/ InfoOpen
  \/ InfoRead
  \/ RuntimeOpen
  \/ RuntimeKeys
  \/ SetDomain
  \/ SetDimensionality
  \/ SetPeriodicity
  \/ SetTime
  \/ SetFlag
  \/ CosmoRedshift
  \/ CosmoLambda
  \/ CosmoMatter
  \/ CosmoHubble
  \/ Fallback
  \/ NonCosmo
  \/ Store
  \/ UnitsBegin
  \/ SetUnits

Spec == Init /\ [][Next]_vars

\* ------------------------------------------------------------- properties
\* _parse_parameter_file has returned: self.file_count = 1 is its last
\* assignment.
Parsed == ds.file_count = 1

\* The attributes the file holds for a group the code has read.
Attrs(g) == file[g].attrs

\* Policy["cosmological integration"] of the file is n.
FileFlagIs(n) ==
  /\ Has(Attrs("Policy"), "cosmological_integration")
  /\ Attrs("Policy")["cosmological_integration"] = n

\* An expected Cosmology:* key is absent from Parameters.
MissingCosmologyKey(p) ==
  \/ ~Has(p, "Cosmology_Omega_lambda")
  \/ ~Has(p, "Cosmology_h")
  \/ Has(p, "Cosmology_Omega_cdm") /\ ~Has(p, "Cosmology_Omega_b")
  \/ ~Has(p, "Cosmology_Omega_cdm") /\ ~Has(p, "Cosmology_Omega_m")

CosmologyIsZero ==
  /\ ds.current_redshift = 0
  /\ ds.omega_lambda = 0
  /\ ds.omega_matter = 0
  /\ ds.hubble_constant = 0

\* The scalars the file gives when every key is there.
CosmologyFromFile ==
  /\ ds.omega_lambda = Attrs("Parameters")["Cosmology_Omega_lambda"]
  /\ ds.omega_matter =
       IF Has(Attrs("Parameters"), "Cosmology_Omega_cdm")
         THEN Attrs("Parameters")["Cosmology_Omega_b"]
              + Attrs("Parameters")["Cosmology_Omega_cdm"]
         ELSE Attrs("Parameters")["Cosmology_Omega_m"]
  /\ ds.hubble_constant = Attrs("Parameters")["Cosmology_h"]
  /\ Has(Attrs("Header"), "Redshift")
       => ds.current_redshift = Attrs("Header")["Redshift"]

\* The parser is inside the cosmology block or between it and its return.
InCosmologyBlock ==
  pc \in {"redshift", "omega_lambda", "omega_matter", "hubble", "fallback",
          "noncosmo", "store"}

\* C1: _is_valid is total: whatever the candidate file holds, no exception
\* escapes a validity check.
C1_ValidNeverRaises == exc = "none"

\* C2: with the flag 1 in the file and an expected Cosmology:* key absent,
\* the parser does not stop or raise in the cosmology block, and when it has
\* returned the flag is 0 and the four scalars are 0.0.
C2_FallbackAllOrNothing ==
  (FileFlagIs(1) /\ file["Parameters"].state = "present"
     /\ MissingCosmologyKey(Attrs("Parameters")))
  => /\ InCosmologyBlock => ENABLED Next
     /\ pc = "raised" => (ds.cosmological_simulation = Unset \/ Parsed)
     /\ Parsed => ds.cosmological_simulation = 0 /\ CosmologyIsZero

\* A parse that assigned redshift, Omega_lambda and Omega_matter from the
\* file, missed Cosmology:h and returned with all four scalars zeroed.
C2_Witness ==
  /\ Parsed
  /\ FileFlagIs(1)
  /\ Has(Attrs("Header"), "Redshift")
  /\ DOMAIN Attrs("Parameters") \cap
       {"Cosmology_Omega_lambda", "Cosmology_Omega_m", "Cosmology_Omega_cdm",
        "Cosmology_h"}
       = {"Cosmology_Omega_lambda", "Cosmology_Omega_m"}
  /\ ds.cosmological_simulation = 0
  /\ CosmologyIsZero

\* C3 as stated: with the flag 1 and every required Cosmology:* key present,
\* after the parse cosmological_simulation is 1 and the scalars are the
\* file's, whether or not Header has Redshift.
C3_Original ==
  (Parsed /\ FileFlagIs(1) /\ ~MissingCosmologyKey(Attrs("Parameters")))
  => ds.cosmological_simulation = 1 /\ CosmologyFromFile

\* C3 amended: with the flag 1, every required Cosmology:* key present and
\* the Header attribute Redshift present, after the parse
\* cosmological_simulation is 1 and the four scalars are the file's values,
\* omega_matter being Omega_b + Omega_cdm with the split keys and Omega_m
\* without.
C3_CosmologyParsed ==
  (Parsed /\ FileFlagIs(1) /\ ~MissingCosmologyKey(Attrs("Parameters"))
     /\ Has(Attrs("Header"), "Redshift"))
  => ds.cosmological_simulation = 1 /\ CosmologyFromFile

\* A cosmological parse over the split keys: omega_matter is the sum.
C3_Witness ==
  /\ Parsed
  /\ FileFlagIs(1)
  /\ Has(Attrs("Header"), "Redshift")
  /\ ~MissingCosmologyKey(Attrs("Parameters"))
  /\ Has(Attrs("Parameters"), "Cosmology_Omega_cdm")
  /\ ds.cosmological_simulation = 1
  /\ ds.omega_matter = 3
  /\ ds.current_redshift = 2

\* The result a validity check should give for its candidate.
IsSwift(c) ==
  /\ c.deps
  /\ c.container
  /\ c.header
  /\ Decode(c.code).exc = "none"
  /\ Decode(c.code).text = "SWIFT"

\* C4: a validity check that has ended returned true if and only if the
\* dependency is there, the file is a container and Code decodes to "SWIFT";
\* in every other case it returned false, and with the dependency missing
\* it did not try to open the file.
C4_ValidIffSwift ==
  (pc = "idle" /\ checks > 0)
  => /\ exc = "none"
     /\ valid = IsSwift(cand)
     /\ ~cand.deps => ~attempted

\* C5: after the parser and the unit resolver, the length unit is comoving
\* centimetres exactly when cosmological_simulation is nonzero, physical
\* centimetres otherwise, with the magnitude of Units U_L.
C5_ComovingIffFlagged ==
  pc = "done"
  => /\ ds.length_unit.mag = Attrs("Units")["U_L"]
     /\ ds.length_unit.unit =
          IF ds.cosmological_simulation # 0 THEN "cmcm" ELSE "cm"

\* Where the file keeps the flag the periodicity is derived from:
\* RuntimePars when the file has the group, Parameters only when it has not.
FilePeriodicAttrs ==
  IF file["RuntimePars"].state = "present"
    THEN Attrs("RuntimePars")
    ELSE Attrs("Parameters")

FilePeriodicKey ==
  IF file["RuntimePars"].state = "present"
    THEN "PeriodicBoundariesOn"
    ELSE "InitialConditions_periodic"

\* C6: after a completed parse the periodicity vector has one entry per
\* dimension, all True when the source flag is nonzero and all False when
\* it is 0.
C6_PeriodicityUniform ==
  Parsed
  => /\ DOMAIN ds.periodicity = 1..ToInt(Attrs("Header")["Dimension"])
     /\ ds.dimensionality = ToInt(Attrs("Header")["Dimension"])
     /\ Has(FilePeriodicAttrs, FilePeriodicKey)
     /\ \A i \in DOMAIN ds.periodicity :
          ds.periodicity[i] = (FilePeriodicAttrs[FilePeriodicKey] # 0)

\* A file with RuntimePars saying non-periodic and Parameters saying
\* periodic: the vector is all False.
C6_Witness ==
  /\ Parsed
  /\ file["RuntimePars"].state = "present"
  /\ Attrs("RuntimePars")["PeriodicBoundariesOn"] = 0
  /\ Has(Attrs("Parameters"), "InitialConditions_periodic")
  /\ Attrs("Parameters")["InitialConditions_periodic"] = 1
  /\ ds.dimensionality = 3
  /\ ds.periodicity = <<FALSE, FALSE, FALSE>>

\* C7: after a completed parse, cosmological_simulation = 0 implies that the
\* four cosmology scalars are 0.0.
C7_NonCosmologicalIsZero ==
  (Parsed /\ ds.cosmological_simulation = 0) => CosmologyIsZero

\* A parse of a file whose flag is 0.
C7_Witness ==
  /\ Parsed
  /\ FileFlagIs(0)
  /\ ds.cosmological_simulation = 0
  /\ CosmologyIsZero

\* C8: a handle of the extractor is open only inside its with block (and
\* the with block of the RuntimePars test): never more than one, and none
\* once the extractor has returned or raised.
C8_NoHandleLeak ==
  /\ handles \in {0, 1}
  /\ pc \notin {"info_read", "rt_keys"} => handles = 0

\* The extractor raised for a missing group and no handle is open.
C8_Witness ==
  /\ pc = "raised"
  /\ exc = "KeyError"
  /\ dataset \in Groups
  /\ file[dataset].state = "absent"
  /\ handles = 0

RawKeys == {"header", "policy", "parameters", "runtime_parameters", "hydro",
            "subgrid"}

\* C9: after a completed parse self.parameters has exactly the six keys,
\* each holding the attribute dictionary of its group, and
\* runtime_parameters is empty exactly when the file has no RuntimePars.
C9_RawPassthrough ==
  Parsed
  => /\ DOMAIN ds.parameters = RawKeys
     /\ ds.parameters["header"] = Attrs("Header")
     /\ ds.parameters["policy"] = Attrs("Policy")
     /\ ds.parameters["parameters"] = Attrs("Parameters")
     /\ ds.parameters["hydro"] = Attrs("HydroScheme")
     /\ ds.parameters["subgrid"] = Attrs("SubgridScheme")
     /\ file["RuntimePars"].state = "present"
          => ds.parameters["runtime_parameters"] = Attrs("RuntimePars")
     /\ (ds.parameters["runtime_parameters"] = EmptyDict)
          <=> (file["RuntimePars"].state = "absent")

\* A parse that took the cosmology fallback on a file without RuntimePars.
C9_Witness ==
  /\ Parsed
  /\ FileFlagIs(1)
  /\ ds.cosmological_simulation = 0
  /\ file["RuntimePars"].state = "absent"
  /\ ds.parameters["runtime_parameters"] = EmptyDict
  /\ ds.parameters["hydro"] = [Scheme |-> 1]

\* C10: every handle a validity check opened is closed by the time the check
\* returns: at its return statement the check holds no open handle.
C10_ValidClosesHandle == pc = "v_ret" => ~vhandle

====
